---- MODULE Spec2Model ----
(***************************************************************************)
(* Task synchronisation core of the Audio2MidiFlow frontend: the zustand   *)
(* task store (Registry), the zustand UI store (notification queue), the   *)
(* three react-query pollers (task list, single task, recent uploads),     *)
(* the recent-uploads merge, and the upload / cancel mutations.            *)
(*                                                                         *)
(* The remote service is the environment: it owns one status per task and  *)
(* answers a request with the state it has when the request reaches it;    *)
(* the answer then travels for an arbitrary time.  The fetch lifecycle     *)
(* (one Query per key, de-duplication, cancelRefetch on invalidation and   *)
(* manual refetch, data kept on error, structural sharing) is the one of   *)
(* @tanstack/react-query v5 that the hooks are written against.            *)
(***************************************************************************)
EXTENDS Integers, Sequences, FiniteSets, TLC

\* ------------------------------------------------------------------ bounds
MaxRegistry == 2      \* longest Registry task list explored
MaxOutstanding == 2   \* most HTTP requests outstanding for one query key
MaxNotifications == 1 \* longest notification queue explored
MaxFetches == 4       \* most snapshot requests issued in one explored session
MaxMutations == 1     \* most upload / cancel calls under way at once
MaxTasks == 1         \* most tasks the service creates in one explored session
MaxQueue == 2         \* longest notification queue when the UI store is driven alone
MaxTimers == 2        \* most removal timers pending for one notification id
RecentLimit == 1      \* tasks in one recent-uploads snapshot (stands for limit: 50)
MaxOthers == 1        \* most tasks other clients of the service create

\* ------------------------------------------------------- program constants
PollIntervalMs == 2000
DefaultDurationMs == 5000
Never == 0             \* refetchInterval's `false`: no automatic refetch
MsPerHour == 3600000   \* 1000 * 60 * 60
DefaultHours == 24     \* useRecentUploads(hours = 24)

\* --------------------------------------------------------------- universes
\* the tasks of the explored session, in the order the service creates them
TaskOrder == <<"A", "B">>
TaskIds == {TaskOrder[i] : i \in DOMAIN TaskOrder}
NoTask == ""
Keys == {"list", "detail", "recent"}
ActiveStatuses == {"pending", "processing"}
TerminalStatuses == {"completed", "failed", "cancelled"}
NotifIds == {"n1", "n2"}

VARIABLES
  srv,            \* remote service: task id -> "absent" or a TaskStatus
  tasks,          \* useTaskStore.tasks
  currentTask,    \* useTaskStore.currentTask (<<>> is null)
  isLoading,      \* useTaskStore.isLoading
  notifications,  \* useUIStore.notifications
  timers,         \* pending setTimeout callbacks of addNotification (ids)
  isUploading,    \* useUIStore.isUploading
  selectedTaskId, \* useUIStore.selectedTaskId (NoTask is null)
  view,           \* AppLayout.activeView
  qdata,          \* query.state.data per key
  qerror,         \* query.state.error per key (TRUE: an error is stored)
  fetching,       \* query.state.fetchStatus = 'fetching' per key
  net,            \* HTTP responses under way per key, in issue order
  issued,         \* number of snapshot requests issued so far
  upload,         \* the upload mutation under way (<<>>: none)
  cancelling,     \* the cancel mutation under way (<<>>: none)
  gateway,        \* the cleanup, export and download mutations under way
  last            \* history: the key whose abandoned response was just dropped, or ""

vars == <<srv, tasks, currentTask, isLoading, notifications, timers,
          isUploading, selectedTaskId, view, qdata, qerror, fetching, net,
          issued, upload, cancelling, gateway, last>>

storeVars == <<tasks, currentTask, isLoading>>
uiVars == <<notifications, timers, isUploading, selectedTaskId>>
queryVars == <<qdata, qerror, fetching, net, issued>>

\* ------------------------------------------------------------ remote service
\* server-assigned ordinal of a task
SrvId(t) == IF t = "A" THEN 17 ELSE 18

\* server-side creation instant of a task (the service creates A before B)
CreatedAt(t) == IF t = "A" THEN 1 ELSE 2

\* the progress the service reports with a status
Prog(s) == CASE s = "pending" -> 0
             [] s = "processing" -> 40
             [] s = "completed" -> 100
             [] OTHER -> 40

\* the Task the service returns for t while it is in status s
SrvTask(t, s) ==
  [task_id |-> t, id |-> SrvId(t), status |-> s, progress |-> Prog(s),
   created_at |-> CreatedAt(t)]

\* GET /tasks: the tasks the service knows, newest first
Snapshot ==
  LET order == [i \in DOMAIN TaskOrder |-> TaskOrder[Len(TaskOrder) + 1 - i]]
      known == SelectSeq(order, LAMBDA t : srv[t] # "absent")
  IN  [i \in 1..Len(known) |-> SrvTask(known[i], srv[known[i]])]

\* GET /tasks?limit=...&sort=created_at&order=desc of useRecentUploads: the
\* newest tasks, up to the limit
RecentSnapshot ==
  SubSeq(Snapshot, 1, IF Len(Snapshot) < RecentLimit THEN Len(Snapshot) ELSE RecentLimit)

\* GET /tasks/{id}
SingleSnapshot(t) == <<SrvTask(t, srv[t])>>

\* ------------------------------------------------------------ sequence help
RECURSIVE InsertDesc(_, _)
InsertDesc(sorted, x) ==
  IF sorted = <<>> THEN <<x>>
  ELSE IF Head(sorted).created_at >= x.created_at
       THEN <<Head(sorted)>> \o InsertDesc(Tail(sorted), x)
       ELSE <<x>> \o sorted

\* Array.prototype.sort with the comparator b.created_at - a.created_at:
\* a stable sort, newest first
RECURSIVE SortDesc(_)
SortDesc(s) ==
  IF s = <<>> THEN <<>>
  ELSE InsertDesc(SortDesc(SubSeq(s, 1, Len(s) - 1)), s[Len(s)])

Ids(s) == {s[i].task_id : i \in DOMAIN s}
Count(s, t) == Cardinality({i \in DOMAIN s : s[i].task_id = t})
RemoveAt(s, i) == SubSeq(s, 1, i - 1) \o SubSeq(s, i + 1, Len(s))

\* ------------------------------------------------------------- useTaskStore
\* { ...task, ...updates }
Spread(task, updates) ==
  [f \in DOMAIN task \cup DOMAIN updates |->
     IF f \in DOMAIN updates THEN updates[f] ELSE task[f]]

\* a setTasks that keeps the entries the new list lacks
setTasksKeepOld(new) ==
  new \o SelectSeq(tasks, LAMBDA o : o.task_id \notin Ids(new))

\* setTasks: (tasks) => set({ tasks })
setTasks(new) == new

\* addTask: tasks: [task, ...state.tasks]
addTask(old, task) == <<task>> \o old

\* an updateTask that inserts the patch when no entry has the id
updateTaskInsert(old, taskId, updates) ==
  IF taskId \in Ids(old)
  THEN [i \in DOMAIN old |->
          IF old[i].task_id = taskId THEN Spread(old[i], updates) ELSE old[i]]
  ELSE <<Spread([task_id |-> taskId], updates)>> \o old

\* updateTask, the tasks part: map over the list, merge where the id matches
updateTask(old, taskId, updates) ==
  [i \in DOMAIN old |->
     IF old[i].task_id = taskId THEN Spread(old[i], updates) ELSE old[i]]

\* an updateTask that leaves currentTask alone
updateCurrentNever(cur, taskId, updates) == cur

\* updateTask, the currentTask part
updateCurrent(cur, taskId, updates) ==
  IF cur # <<>> /\ cur[1].task_id = taskId
  THEN <<Spread(cur[1], updates)>>
  ELSE cur

\* getTasksByStatus: get().tasks.filter(task => task.status === status)
getTasksByStatus(status) == SelectSeq(tasks, LAMBDA task : task.status = status)

\* getTaskById: get().tasks.find(task => task.task_id === taskId), the
\* first match or nothing
getTaskById(taskId) ==
  LET found == SelectSeq(tasks, LAMBDA task : task.task_id = taskId)
  IN  IF found = <<>> THEN <<>> ELSE <<Head(found)>>

\* an active() that leaves the pending tasks out
getActiveTasksProcessingOnly == SelectSeq(tasks, LAMBDA task : task.status = "processing")

\* getActiveTasks: pending or processing
getActiveTasks ==
  SelectSeq(tasks, LAMBDA task : task.status = "pending" \/ task.status = "processing")

\* getCompletedTasks
getCompletedTasks == SelectSeq(tasks, LAMBDA task : task.status = "completed")

\* -------------------------------------------------------- useRecentUploads
\* a merge that keeps every local task next to the API tasks
mergedTasksOfKeepAll(localTasks, apiTasks) == SortDesc(localTasks \o apiTasks)

\* a merge that shows the API tasks alone once there are any
mergedTasksOfApiOnly(localTasks, apiTasks) ==
  IF apiTasks # <<>> THEN SortDesc(apiTasks) ELSE SortDesc(localTasks)

\* a merge that leaves the combined list as it was put together
mergedTasksOfUnsorted(localTasks, apiTasks) ==
  SelectSeq(localTasks, LAMBDA l : l.task_id \notin Ids(apiTasks)) \o apiTasks

\* mergedTasks: local-only tasks followed by the API tasks, sorted
mergedTasksOf(localTasks, apiTasks) ==
  LET apiIds == Ids(apiTasks)
      localOnlyTasks == SelectSeq(localTasks, LAMBDA l : l.task_id \notin apiIds)
  IN  SortDesc(localOnlyTasks \o apiTasks)

\* data?.data?.tasks || []
apiTasksOf(d) == IF d.has THEN d.tasks ELSE <<>>

mergedTasks == mergedTasksOf(tasks, apiTasksOf(qdata["recent"]))

\* the activeTasks state the effect keeps: ids of pending/processing merged
\* tasks while RecentUploads is mounted
activeTasks ==
  IF view = "upload"
  THEN LET act == SelectSeq(mergedTasks, LAMBDA t : t.status \in ActiveStatuses)
       IN  [i \in DOMAIN act |-> act[i].task_id]
  ELSE <<>>


\* the windows RecentUploads is used with, and the instants new Date() can
\* give when the hook renders with a window of h hours: the window's edge
\* falls on and next to the created_at values of the tasks
HoursInputs == {1, DefaultHours}
NowInputs(h) == {h * MsPerHour + c : c \in 1..4}

\* a filter that cuts the window's edge off
hoursDiffWithinStrict(now, created_at, hours) ==
  (now - created_at) \div MsPerHour < hours

\* hoursDiff <= hours, with hoursDiff = (now - created_at) / (1000*60*60):
\* the quotient as whole hours q and a rest of r ms
hoursDiffWithin(now, created_at, hours) ==
  LET diff == now - created_at
      q == diff \div MsPerHour
      r == diff % MsPerHour
  IN  q < hours \/ (q = hours /\ r = 0)

\* recentTasks: mergedTasks.filter(hoursDiff <= hours)
recentTasksOf(merged, now, hours) ==
  SelectSeq(merged, LAMBDA t : hoursDiffWithin(now, t.created_at, hours))

\* no group yet: {} as Record<TaskStatus, Task[]>
NoGroups == [k \in {} |-> <<>>]

\* a grouping that puts each task in front of its group
RECURSIVE groupReducePrepend(_, _)
groupReducePrepend(acc, s) ==
  IF s = <<>> THEN acc
  ELSE LET t == Head(s)
           made == [k \in DOMAIN acc \cup {t.status} |->
                      IF k \in DOMAIN acc THEN acc[k] ELSE <<>>]
       IN  groupReducePrepend([made EXCEPT ![t.status] = <<t>> \o @], Tail(s))

\* recentTasks.reduce: create the status's group when missing, push the task
RECURSIVE groupReduce(_, _)
groupReduce(acc, s) ==
  IF s = <<>> THEN acc
  ELSE LET t == Head(s)
           made == [k \in DOMAIN acc \cup {t.status} |->
                      IF k \in DOMAIN acc THEN acc[k] ELSE <<>>]
       IN  groupReduce([made EXCEPT ![t.status] = Append(@, t)], Tail(s))

\* tasksByStatus
tasksByStatusOf(recent) == groupReduce(NoGroups, recent)


\* --------------------------------------------------------------- useUIStore
\* a notification passed without a duration
NoDuration == [given |-> FALSE, ms |-> 0]

\* notification.duration ?? 5000
effectiveDuration(d) == IF d.given THEN d.ms ELSE DefaultDurationMs

\* addNotification, the queue part: append { ...notification, id, timestamp }
addNotification(q, id, type) == Append(q, [id |-> id, type |-> type])

\* addNotification, the timer part: setTimeout(removeNotification(id)) when
\* the duration is positive
scheduleRemoval(tm, id, d) ==
  IF effectiveDuration(d) > 0 THEN [tm EXCEPT ![id] = @ + 1] ELSE tm

\* removeNotification: notifications.filter(n => n.id !== id)
removeNotification(q, id) == SelectSeq(q, LAMBDA n : n.id # id)

\* room for one more notification in the explored queue
CanNotify == Len(notifications) < MaxNotifications

\* ------------------------------------------------------------- the pollers
NoData == [has |-> FALSE, tasks |-> <<>>]

\* an observer of the key is mounted and enabled
Mounted(k) ==
  CASE k = "list" -> view = "tasks"
    [] k = "recent" -> view = "upload"
    [] k = "detail" -> selectedTaskId # NoTask

hasActiveTasksIn(ts) == \E i \in DOMAIN ts : ts[i].status = "pending" \/ ts[i].status = "processing"

\* a list policy that polls for processing tasks only
listRefetchIntervalProcessingOnly(d) ==
  IF d.has /\ \E i \in DOMAIN d.tasks : d.tasks[i].status = "processing"
  THEN PollIntervalMs
  ELSE Never

\* useTasksWithEffects.refetchInterval
listRefetchInterval(d) ==
  IF d.has
  THEN IF hasActiveTasksIn(d.tasks) THEN PollIntervalMs ELSE Never
  ELSE Never

\* useTaskWithEffects.refetchInterval
detailRefetchInterval(d) ==
  IF d.has /\ (d.tasks[1].status = "processing" \/ d.tasks[1].status = "pending")
  THEN PollIntervalMs
  ELSE Never

\* useRecentUploads.refetchInterval
recentRefetchInterval == IF Len(activeTasks) > 0 THEN PollIntervalMs ELSE Never

refetchInterval(k) ==
  CASE k = "list" -> listRefetchInterval(qdata[k])
    [] k = "detail" -> detailRefetchInterval(qdata[k])
    [] k = "recent" -> recentRefetchInterval

\* the interval timer of a mounted observer runs iff refetchInterval gives a
\* positive delay
PollArmed(k) == Mounted(k) /\ refetchInterval(k) # Never

\* queryFn: the response the service gives now for the key
queryFn(k, sel) ==
  CASE k = "detail" -> SingleSnapshot(sel)
    [] k = "recent" -> RecentSnapshot
    [] k = "list" -> Snapshot

\* a fetch that starts a further request next to the running one
fetchNetConcurrent(k, sel, cancelRefetch) ==
  IF fetching[k] /\ ~cancelRefetch
  THEN net[k]
  ELSE net[k] \o <<[live |-> TRUE, tasks |-> queryFn(k, sel)]>>

\* Query.fetch: de-duplicate while a fetch runs, unless data is there and
\* cancelRefetch is set; then the running fetch is abandoned (its HTTP
\* request is not aborted: queryFn passes no signal) and a new one starts
fetchNet(k, sel, cancelRefetch) ==
  LET entry == [live |-> TRUE, tasks |-> queryFn(k, sel)]
  IN  IF fetching[k]
      THEN IF qdata[k].has /\ cancelRefetch
           THEN [i \in DOMAIN net[k] |-> [net[k][i] EXCEPT !.live = FALSE]] \o <<entry>>
           ELSE net[k]
      ELSE net[k] \o <<entry>>

\* fetch the keys of K
fetchAll(K, sel, cancelRefetch) ==
  /\ \A k \in K : Len(fetchNet(k, sel, cancelRefetch)) <= MaxOutstanding
  /\ issued' = issued + Cardinality({k \in K : fetchNet(k, sel, cancelRefetch) # net[k]})
  /\ issued' <= MaxFetches
  /\ net' = [k \in Keys |-> IF k \in K THEN fetchNet(k, sel, cancelRefetch) ELSE net[k]]
  /\ fetching' = [k \in Keys |-> fetching[k] \/ k \in K]

\* an invalidation that marks the queries stale and refetches none
invalidateQueriesMarkOnly(K) == UNCHANGED <<issued, net, fetching>>

\* queryClient.invalidateQueries: refetch the matching queries that have a
\* mounted observer, cancelling a running fetch
invalidateQueries(K) ==
  fetchAll({k \in K : Mounted(k)}, selectedTaskId, TRUE)


\* ------------------------------------------------------------------- state
Init ==
  /\ srv = [t \in TaskIds |-> "absent"]
  /\ tasks = <<>>
  /\ currentTask = <<>>
  /\ isLoading = FALSE
  /\ notifications = <<>>
  /\ timers = [id \in NotifIds |-> 0]
  /\ isUploading = FALSE
  /\ selectedTaskId = NoTask
  /\ view = "upload"
  /\ qdata = [k \in Keys |-> NoData]
  /\ qerror = [k \in Keys |-> FALSE]
  \* RecentUploads is mounted with the first view: its query is fetching
  /\ fetching = [k \in Keys |-> k = "recent"]
  /\ net = [k \in Keys |-> IF k = "recent" THEN <<[live |-> TRUE, tasks |-> <<>>]>> ELSE <<>>]
  /\ issued = 1
  /\ upload = <<>>
  /\ cancelling = <<>>
  /\ gateway = {}
  /\ last = ""

\* addNotification with the default duration, as every caller in the hooks
Notify(id, type) ==
  /\ CanNotify
  /\ timers[id] < MaxNotifications
  /\ notifications' = addNotification(notifications, id, type)
  /\ timers' = scheduleRemoval(timers, id, NoDuration)

\* ---------------------------------------------------------- remote service
\* the service works on a task: pending -> processing -> completed | failed
SrvAdvance(t) ==
  /\ \/ srv[t] = "pending" /\ srv' = [srv EXCEPT ![t] = "processing"]
     \/ srv[t] = "processing" /\ \E s \in {"completed", "failed"} : srv' = [srv EXCEPT ![t] = s]
  /\ last' = ""
  /\ UNCHANGED <<storeVars, uiVars, view, queryVars, upload, cancelling, gateway>>

\* ------------------------------------------------------------ the pollers
\* the data effects of the hooks, run when an observer sees new data
dataEffect(k, ts) ==
  CASE k = "list" ->
         /\ tasks' = setTasks(ts)
         /\ isLoading' = FALSE
         /\ UNCHANGED currentTask
    [] k = "detail" ->
         /\ tasks' = updateTask(tasks, selectedTaskId, ts[1])
         /\ currentTask' = updateCurrent(<<ts[1]>>, selectedTaskId, ts[1])
         /\ UNCHANGED isLoading
    [] k = "recent" -> UNCHANGED storeVars

\* the interval timer of a mounted observer fires
PollTick(k) ==
  /\ PollArmed(k)
  /\ fetchAll({k}, selectedTaskId, FALSE)
  /\ last' = ""
  /\ UNCHANGED <<srv, storeVars, uiVars, view, qdata, qerror, upload, cancelling, gateway>>

\* the refresh button of TaskList / RecentUploads: refetch()
ManualRefetch(k) ==
  /\ k \in {"list", "recent"}
  /\ Mounted(k)
  /\ fetchAll({k}, selectedTaskId, TRUE)
  /\ last' = ""
  /\ UNCHANGED <<srv, storeVars, uiVars, view, qdata, qerror, upload, cancelling, gateway>>

\* the response of the running fetch arrives: the query stores it and the
\* hook's data effect runs if the data is new to a mounted observer
FetchSuccess(k, i) ==
  /\ i \in DOMAIN net[k]
  /\ net[k][i].live
  /\ LET ts == net[k][i].tasks IN
       /\ qdata' = [qdata EXCEPT ![k] = [has |-> TRUE, tasks |-> ts]]
       /\ IF Mounted(k) /\ qdata'[k] # qdata[k]
          THEN dataEffect(k, ts)
          ELSE UNCHANGED storeVars
  /\ qerror' = [qerror EXCEPT ![k] = FALSE]
  /\ fetching' = [fetching EXCEPT ![k] = FALSE]
  /\ net' = [net EXCEPT ![k] = RemoveAt(@, i)]
  /\ last' = ""
  /\ UNCHANGED <<srv, uiVars, view, issued, upload, cancelling, gateway>>

\* a failure that also throws the stored snapshot away
FetchFailureClearsData(k, i) ==
  /\ i \in DOMAIN net[k]
  /\ net[k][i].live
  /\ qerror' = [qerror EXCEPT ![k] = TRUE]
  /\ qdata' = [qdata EXCEPT ![k] = NoData]
  /\ fetching' = [fetching EXCEPT ![k] = FALSE]
  /\ net' = [net EXCEPT ![k] = RemoveAt(@, i)]
  /\ IF Mounted(k) /\ k \in {"list", "detail"}
     THEN \E id \in NotifIds : Notify(id, "error")
     ELSE UNCHANGED <<notifications, timers>>
  /\ isLoading' = (isLoading /\ ~(Mounted(k) /\ k = "list"))
  /\ last' = ""
  /\ UNCHANGED <<srv, tasks, currentTask, isUploading, selectedTaskId, view, issued,
                 upload, cancelling, gateway>>

\* the running fetch fails (transport error, timeout, remote rejection):
\* the data stays, the error is stored, the hook's error effect runs
FetchFailure(k, i) ==
  /\ i \in DOMAIN net[k]
  /\ net[k][i].live
  /\ qerror' = [qerror EXCEPT ![k] = TRUE]
  /\ fetching' = [fetching EXCEPT ![k] = FALSE]
  /\ net' = [net EXCEPT ![k] = RemoveAt(@, i)]
  /\ IF Mounted(k) /\ k = "list"
     THEN /\ \E id \in NotifIds : Notify(id, "error")
          /\ isLoading' = FALSE
          /\ UNCHANGED <<tasks, currentTask>>
     ELSE IF Mounted(k) /\ k = "detail"
     THEN /\ \E id \in NotifIds : Notify(id, "error")
          /\ UNCHANGED storeVars
     ELSE UNCHANGED <<storeVars, notifications, timers>>
  /\ last' = ""
  /\ UNCHANGED <<srv, isUploading, selectedTaskId, view, qdata, issued, upload, cancelling, gateway>>

\* an abandoned fetch whose late response is stored and applied all the same
FetchAbandonedStored(k, i) ==
  /\ i \in DOMAIN net[k]
  /\ ~net[k][i].live
  /\ LET ts == net[k][i].tasks IN
       /\ qdata' = [qdata EXCEPT ![k] = [has |-> TRUE, tasks |-> ts]]
       /\ IF Mounted(k) /\ qdata'[k] # qdata[k]
          THEN dataEffect(k, ts)
          ELSE UNCHANGED storeVars
  /\ net' = [net EXCEPT ![k] = RemoveAt(@, i)]
  /\ last' = k
  /\ UNCHANGED <<srv, uiVars, view, qerror, fetching, issued, upload, cancelling, gateway>>

\* the response (or failure) of an abandoned fetch arrives: the query
\* ignores it
FetchAbandoned(k, i) ==
  /\ i \in DOMAIN net[k]
  /\ ~net[k][i].live
  /\ net' = [net EXCEPT ![k] = RemoveAt(@, i)]
  /\ last' = k
  /\ UNCHANGED <<srv, storeVars, uiVars, view, qdata, qerror, fetching, issued, upload, cancelling, gateway>>


\* ---------------------------------------------------------------- the views
\* Sidebar.onViewChange: the old view's poller unmounts, the new one mounts;
\* the hook's effects run on what the query holds, then the query refetches
SwitchView(v) ==
  /\ v \in {"upload", "tasks"}
  /\ v # view
  /\ view' = v
  /\ IF v = "tasks"
     THEN /\ fetchAll({"list"}, selectedTaskId, FALSE)
          /\ IF qdata["list"].has
             THEN dataEffect("list", qdata["list"].tasks)
             ELSE IF qerror["list"]
                  THEN isLoading' = FALSE /\ UNCHANGED <<tasks, currentTask>>
                  ELSE UNCHANGED storeVars
          \* with data in the cache the stored error is shown to the new
          \* observer, and the error effect runs on it
          /\ IF qerror["list"] /\ qdata["list"].has
             THEN \E id \in NotifIds : Notify(id, "error")
             ELSE UNCHANGED <<notifications, timers>>
     ELSE /\ fetchAll({"recent"}, selectedTaskId, FALSE)
          /\ UNCHANGED <<storeVars, notifications, timers>>
  /\ last' = ""
  /\ UNCHANGED <<srv, isUploading, selectedTaskId, qdata, qerror, upload, cancelling, gateway>>

\* TaskList.handleTaskClick -> openTaskDetail: the modal's single-task query
\* becomes enabled and fetches
OpenTaskDetail(t) ==
  /\ view = "tasks"
  /\ selectedTaskId = NoTask
  /\ qdata["list"].has
  /\ t \in Ids(qdata["list"].tasks)
  /\ selectedTaskId' = t
  /\ fetchAll({"detail"}, t, FALSE)
  /\ last' = ""
  /\ UNCHANGED <<srv, storeVars, notifications, timers, isUploading, view,
                 qdata, qerror, upload, cancelling, gateway>>

\* ------------------------------------------------------------- the uploads
\* the ids the service gives to the next n accepted files
RECURSIVE FreshIds(_, _)
FreshIds(order, n) ==
  IF n = 0 \/ order = <<>> THEN <<>>
  ELSE IF srv[Head(order)] = "absent"
       THEN <<Head(order)>> \o FreshIds(Tail(order), n - 1)
       ELSE FreshIds(Tail(order), n)

\* what POST /upload and POST /upload/batch return per accepted file
UploadItem(t) == [task_id |-> t, status |-> "pending", created_at |-> CreatedAt(t)]

\* the instants new Date() can give when a batch response is handled
ClientNow == {2, 3}

\* FileUpload.onDrop -> mutate: onMutate runs, the request leaves; the
\* service accepts n files (creating their tasks) or the request fails
UploadStart(kind, n, ok) ==
  /\ view = "upload"
  /\ ~isUploading
  /\ upload = <<>>
  /\ Len(upload) + Len(cancelling) < MaxMutations
  /\ kind = "single" => n = 1
  /\ LET ids == IF ok THEN FreshIds(TaskOrder, n) ELSE <<>> IN
       /\ ok => Len(ids) = n
       /\ ok => Cardinality({t \in TaskIds : srv[t] # "absent"}) + n <= MaxTasks
       /\ srv' = [t \in TaskIds |-> IF t \in {ids[i] : i \in DOMAIN ids} THEN "pending" ELSE srv[t]]
       /\ upload' = <<[kind |-> kind, ok |-> ok, items |-> [i \in DOMAIN ids |-> UploadItem(ids[i])]]>>
  /\ isUploading' = TRUE
  /\ \E id \in NotifIds : Notify(id, "info")
  /\ last' = ""
  /\ UNCHANGED <<storeVars, selectedTaskId, view, queryVars, cancelling, gateway>>

\* the speculative Task the success callbacks build from a response item
newTask(item, created_at) ==
  [task_id |-> item.task_id, id |-> 0, status |-> item.status, progress |-> 0,
   created_at |-> created_at]

\* data.data.tasks.forEach(... addTask(newTask) ...)
RECURSIVE addEach(_, _, _)
addEach(old, items, now) ==
  IF items = <<>> THEN old
  ELSE addEach(addTask(old, newTask(Head(items), now)), Tail(items), now)

\* useUploadFile: onSuccess, then onSettled
UploadSuccess ==
  /\ upload # <<>> /\ upload[1].kind = "single" /\ upload[1].ok
  /\ Len(tasks) < MaxRegistry
  /\ LET item == upload[1].items[1] IN
       tasks' = addTask(tasks, newTask(item, item.created_at))
  /\ \E id \in NotifIds : Notify(id, "success")
  /\ invalidateQueries({"list", "detail"})
  /\ isUploading' = FALSE
  /\ upload' = <<>>
  /\ last' = ""
  /\ UNCHANGED <<srv, currentTask, isLoading, selectedTaskId, view, qdata, qerror, cancelling, gateway>>

\* useUploadMultipleFiles: onSuccess, then onSettled
BatchUploadSuccess ==
  /\ upload # <<>> /\ upload[1].kind = "batch" /\ upload[1].ok
  /\ Len(tasks) + Len(upload[1].items) <= MaxRegistry
  /\ \E now \in ClientNow : tasks' = addEach(tasks, upload[1].items, now)
  /\ \E id \in NotifIds : Notify(id, "success")
  /\ invalidateQueries({"list", "detail"})
  /\ isUploading' = FALSE
  /\ upload' = <<>>
  /\ last' = ""
  /\ UNCHANGED <<srv, currentTask, isLoading, selectedTaskId, view, qdata, qerror, cancelling, gateway>>

\* an upload failure whose onSettled does not run: the uploading flag stays
UploadErrorKeepsUploading ==
  /\ upload # <<>> /\ ~upload[1].ok
  /\ \E id \in NotifIds : Notify(id, "error")
  /\ upload' = <<>>
  /\ last' = ""
  /\ UNCHANGED <<srv, storeVars, isUploading, selectedTaskId, view, queryVars, cancelling, gateway>>

\* useUploadFile / useUploadMultipleFiles: onError, then onSettled
UploadError ==
  /\ upload # <<>> /\ ~upload[1].ok
  /\ \E id \in NotifIds : Notify(id, "error")
  /\ isUploading' = FALSE
  /\ upload' = <<>>
  /\ last' = ""
  /\ UNCHANGED <<srv, storeVars, selectedTaskId, view, queryVars, cancelling, gateway>>

\* ---------------------------------------------------------------- cancel
\* the cancel button is offered for a shown task that is pending/processing
canCancel(t) ==
  \/ /\ view = "tasks"
     /\ \E i \in DOMAIN qdata["list"].tasks :
          qdata["list"].tasks[i].task_id = t /\ qdata["list"].tasks[i].status \in ActiveStatuses
  \/ /\ selectedTaskId = t
     /\ qdata["detail"].has
     /\ qdata["detail"].tasks[1].status \in ActiveStatuses

\* cancelTask.mutate(taskId): the request leaves; the service cancels an
\* active task, or the call fails
CancelStart(t, ok) ==
  /\ cancelling = <<>>
  /\ Len(upload) + Len(cancelling) < MaxMutations
  /\ canCancel(t)
  /\ ok => srv[t] \in ActiveStatuses
  /\ srv' = IF ok THEN [srv EXCEPT ![t] = "cancelled"] ELSE srv
  /\ cancelling' = <<[task_id |-> t, ok |-> ok]>>
  /\ UNCHANGED gateway
  /\ last' = ""
  /\ UNCHANGED <<storeVars, uiVars, view, queryVars, upload>>

\* useCancelTask.onSuccess
CancelSuccess ==
  /\ cancelling # <<>> /\ cancelling[1].ok
  /\ LET t == cancelling[1].task_id IN
       /\ tasks' = updateTask(tasks, t, [status |-> "cancelled"])
       /\ currentTask' = updateCurrent(currentTask, t, [status |-> "cancelled"])
       /\ invalidateQueries({"list"} \cup (IF selectedTaskId = t THEN {"detail"} ELSE {}))
       /\ last' = ""
  /\ \E id \in NotifIds : Notify(id, "success")
  /\ cancelling' = <<>>
  /\ UNCHANGED gateway
  /\ UNCHANGED <<srv, isLoading, isUploading, selectedTaskId, view, qdata, qerror, upload>>

\* useCancelTask.onError
CancelError ==
  /\ cancelling # <<>> /\ ~cancelling[1].ok
  /\ \E id \in NotifIds : Notify(id, "error")
  /\ cancelling' = <<>>
  /\ UNCHANGED gateway
  /\ last' = ""
  /\ UNCHANGED <<srv, storeVars, isUploading, selectedTaskId, view, queryVars, upload>>

\* ------------------------------------------------------------ notifications
\* the setTimeout callback of addNotification runs
TimerFire(id) ==
  /\ timers[id] > 0
  /\ timers' = [timers EXCEPT ![id] = @ - 1]
  /\ notifications' = removeNotification(notifications, id)
  /\ last' = ""
  /\ UNCHANGED <<srv, storeVars, isUploading, selectedTaskId, view, queryVars, upload, cancelling, gateway>>

\* ------------------------------------------------------------ specification
Next ==
  \/ \E t \in TaskIds : SrvAdvance(t)
  \/ \E k \in Keys : PollTick(k)
  \/ \E k \in Keys : ManualRefetch(k)
  \/ \E k \in Keys, i \in 1..MaxOutstanding : FetchSuccess(k, i)
  \/ \E k \in Keys, i \in 1..MaxOutstanding : FetchFailure(k, i)
  \/ \E k \in Keys, i \in 1..MaxOutstanding : FetchAbandoned(k, i)
  \/ \E v \in {"upload", "tasks"} : SwitchView(v)
  \/ \E t \in TaskIds : OpenTaskDetail(t)
  \/ \E kind \in {"single", "batch"}, n \in 1..Cardinality(TaskIds), ok \in BOOLEAN : UploadStart(kind, n, ok)
  \/ UploadSuccess
  \/ BatchUploadSuccess
  \/ UploadError
  \/ \E t \in TaskIds, ok \in BOOLEAN : CancelStart(t, ok)
  \/ CancelSuccess
  \/ CancelError
  \/ \E id \in NotifIds : TimerFire(id)

Spec == Init /\ [][Next]_vars


\* ------------------------------------------ the stores and the merged view
\* The Registry operations called with any argument, and the recent-uploads
\* query answered with any snapshot: the lists L and snapshots R the merged
\* view is computed from.

\* statuses the explored snapshots give a task
InputStatuses == {"pending", "processing", "completed"}

\* the Tasks a snapshot can hold
RemoteTasks == {SrvTask(t, s) : t \in TaskIds, s \in InputStatuses}

\* the speculative Tasks a success callback can build
LocalTasks ==
  UNION {{newTask(UploadItem(t), c) : c \in {CreatedAt(t)} \cup ClientNow} : t \in TaskIds}

\* GET /tasks answers: every choice of known tasks and their statuses,
\* newest first
SnapshotInputs ==
  LET one(t) == {<<>>} \cup {<<SrvTask(t, s)>> : s \in InputStatuses}
  IN  {b \o a : a \in one("A"), b \in one("B")}

\* the partial Tasks the hooks pass to updateTask
PartialInputs == {[status |-> "cancelled"]} \cup RemoteTasks

StoreInit ==
  /\ srv = [t \in TaskIds |-> "absent"]
  /\ tasks = <<>>
  /\ currentTask = <<>>
  /\ isLoading = FALSE
  /\ notifications = <<>>
  /\ timers = [id \in NotifIds |-> 0]
  /\ isUploading = FALSE
  /\ selectedTaskId = NoTask
  /\ view = "upload"
  /\ qdata = [k \in Keys |-> NoData]
  /\ qerror = [k \in Keys |-> FALSE]
  /\ fetching = [k \in Keys |-> k = "recent"]
  \* the first recent-uploads fetch is under way; the service answers R
  /\ \E R \in SnapshotInputs :
       net = [k \in Keys |-> IF k = "recent" THEN <<[live |-> TRUE, tasks |-> R]>> ELSE <<>>]
  /\ issued = 1
  /\ upload = <<>>
  /\ cancelling = <<>>
  /\ gateway = {}
  /\ last = ""

StoreFrame ==
  UNCHANGED <<srv, isLoading, uiVars, view, queryVars, upload, cancelling, gateway, last>>

\* useTaskStore.setTasks(S)
StoreSetTasks(S) ==
  /\ tasks' = setTasks(S)
  /\ UNCHANGED currentTask
  /\ StoreFrame

\* useTaskStore.addTask(task)
StoreAddTask(task) ==
  /\ Len(tasks) < MaxRegistry
  /\ tasks' = addTask(tasks, task)
  /\ UNCHANGED currentTask
  /\ StoreFrame

\* useTaskStore.updateTask(taskId, updates)
StoreUpdateTask(taskId, updates) ==
  /\ tasks' = updateTask(tasks, taskId, updates)
  /\ currentTask' = updateCurrent(currentTask, taskId, updates)
  /\ StoreFrame

StoreNext ==
  \/ \E S \in SnapshotInputs : StoreSetTasks(S)
  \/ \E task \in LocalTasks \cup RemoteTasks : StoreAddTask(task)
  \/ \E t \in TaskIds, u \in PartialInputs : StoreUpdateTask(t, u)
  \/ FetchSuccess("recent", 1)

StoreSpec == StoreInit /\ [][StoreNext]_vars

\* ------------------------------------------------- the Registry, call by call
\* useTaskStore driven through its actions one call at a time, from the
\* state the store is created in; "last" names the call just made

\* a field that is present with the value undefined
Undefined == "undefined"

\* the Tasks addTask is given: the speculative Task of an accepted upload
AddInputs == {newTask(UploadItem(t), CreatedAt(t)) : t \in TaskIds}

\* the partial Tasks updateTask(taskId, ...) is given: { status: 'cancelled' },
\* the fetched Task of that id and, as Partial<Task> allows, a field set to
\* undefined
UpdateInputs(taskId) ==
  {[status |-> "cancelled"], [status |-> Undefined]}
    \cup {SrvTask(taskId, s) : s \in InputStatuses}

\* the values setCurrentTask is given: null or a fetched Task
CurrentInputs == {<<>>} \cup {<<SrvTask(t, "processing")>> : t \in TaskIds}

RegistryFrame ==
  UNCHANGED <<srv, isLoading, uiVars, view, queryVars, upload, cancelling, gateway>>

\* setTasks(S)
SetTasksCall(S) ==
  /\ tasks' = setTasks(S)
  /\ UNCHANGED currentTask
  /\ last' = "setTasks"
  /\ RegistryFrame

\* addTask(task)
AddTaskCall(task) ==
  /\ Len(tasks) < MaxRegistry
  /\ tasks' = addTask(tasks, task)
  /\ UNCHANGED currentTask
  /\ last' = "addTask"
  /\ RegistryFrame

\* updateTask(taskId, updates)
UpdateTaskCall(taskId, updates) ==
  /\ tasks' = updateTask(tasks, taskId, updates)
  /\ currentTask' = updateCurrent(currentTask, taskId, updates)
  /\ last' = IF taskId \in Ids(tasks) THEN "updateTask" ELSE "updateTask, unknown id"
  /\ RegistryFrame

\* setCurrentTask(task)
SetCurrentTaskCall(cur) ==
  /\ currentTask' = cur
  /\ UNCHANGED tasks
  /\ last' = "setCurrentTask"
  /\ RegistryFrame

\* the getters are called: they read get().tasks and set nothing
GettersCall ==
  /\ last # "getters"
  /\ \A s \in InputStatuses \cup TerminalStatuses :
       Len(getTasksByStatus(s)) <= Len(tasks)
  /\ \A t \in TaskIds : Len(getTaskById(t)) <= 1
  /\ Len(getActiveTasks) + Len(getCompletedTasks) <= Len(tasks)
  /\ last' = "getters"
  /\ UNCHANGED storeVars
  /\ RegistryFrame

RegistryNext ==
  \/ GettersCall
  \/ \E S \in SnapshotInputs : SetTasksCall(S)
  \/ \E task \in AddInputs : AddTaskCall(task)
  \/ \E t \in TaskIds : \E u \in UpdateInputs(t) : UpdateTaskCall(t, u)
  \/ \E cur \in CurrentInputs : SetCurrentTaskCall(cur)

RegistrySpec == Init /\ [][RegistryNext]_vars

\* ------------------------------------- the notification queue, call by call
\* useUIStore's notification actions driven one call at a time, from the
\* state the store is created in.  Here "last" is "clearNotifications" from
\* a clear until a timer is scheduled or fires, so that in such a state
\* every pending timer was scheduled before the clear and every queued
\* notification was added after it.

\* the notifications addNotification is given: without a duration, with a
\* positive one, with 0 and with a negative one
NotificationInputs ==
  {[type |-> "info"]}
    \cup {[type |-> "success", duration |-> d] : d \in {3000, 0, -1}}

\* notification.duration as addNotification reads it
durationOf(notification) ==
  IF "duration" \in DOMAIN notification
  THEN [given |-> TRUE, ms |-> notification.duration]
  ELSE NoDuration

\* newNotification = { ...notification, id, timestamp } (the timestamp is
\* left out of the state)
newNotification(notification, id) ==
  [f \in DOMAIN notification \cup {"id"} |->
     IF f = "id" THEN id ELSE notification[f]]

\* what a call of addNotification evaluates to: the function body has no
\* return statement
addNotificationReturn(id) == Undefined

NotificationFrame ==
  UNCHANGED <<srv, storeVars, isUploading, selectedTaskId, view, queryVars,
              upload, cancelling, gateway>>

\* addNotification(notification), Math.random() giving id
AddNotificationCall(notification, id) ==
  /\ Len(notifications) < MaxQueue
  /\ timers[id] < MaxTimers
  /\ notifications' = Append(notifications, newNotification(notification, id))
  /\ timers' = scheduleRemoval(timers, id, durationOf(notification))
  /\ last' = IF timers' # timers THEN "addNotification" ELSE last
  /\ NotificationFrame

\* removeNotification(id), from the dismiss button or any other caller
RemoveNotificationCall(id) ==
  /\ notifications' = removeNotification(notifications, id)
  /\ UNCHANGED <<timers, last>>
  /\ NotificationFrame

\* clearNotifications()
ClearNotificationsCall ==
  /\ notifications' = <<>>
  /\ UNCHANGED timers
  /\ last' = "clearNotifications"
  /\ NotificationFrame

NotificationNext ==
  \/ \E n \in NotificationInputs, id \in NotifIds : AddNotificationCall(n, id)
  \/ \E id \in NotifIds : RemoveNotificationCall(id)
  \/ ClearNotificationsCall
  \/ \E id \in NotifIds : TimerFire(id)

NotificationSpec == Init /\ [][NotificationNext]_vars

\* ----------------------------------- the request/response gateway hooks
\* useCleanupTasks, useExportHistory, useCleanupHistory and useDownloadMidi
\* run next to the rest of the application.  None of them has an onMutate:
\* issuing the request changes the mutation's own state only.  The History
\* and Statistics pages are not among the views of this model, so their
\* queries have no observer here and an invalidation of them refetches
\* nothing.

\* mutation.mutate(...): the request leaves
mutate(op) ==
  /\ op \notin gateway
  /\ Len(upload) + Len(cancelling) + Cardinality(gateway) < MaxMutations
  /\ gateway' = gateway \cup {op}
  /\ last' = ""
  /\ UNCHANGED <<srv, storeVars, uiVars, view, queryVars, upload, cancelling>>

\* the response arrives and the hook's callback runs: it invalidates the
\* query keys of K and adds one notification of the type
settle(op, K, type) ==
  /\ op \in gateway
  /\ gateway' = gateway \ {op}
  /\ invalidateQueries(K \cap Keys)
  /\ \E id \in NotifIds : Notify(id, type)
  /\ last' = ""
  /\ UNCHANGED <<srv, storeVars, isUploading, selectedTaskId, view, qdata, qerror,
                 upload, cancelling>>

\* the keys useCleanupTasks.onSuccess invalidates
cleanupTasksInvalidates == {"list", "statistics"}

\* the keys useExportHistory.onSuccess invalidates
exportHistoryInvalidates == {}

\* the keys useCleanupHistory.onSuccess invalidates
cleanupHistoryInvalidates == {"history list", "history statistics"}

CleanupTasksMutate == mutate("cleanupTasks")
CleanupTasksSuccess == settle("cleanupTasks", cleanupTasksInvalidates, "success")
CleanupTasksError == settle("cleanupTasks", {}, "error")

ExportHistoryMutate == mutate("exportHistory")
ExportHistorySuccess == settle("exportHistory", exportHistoryInvalidates, "success")
ExportHistoryError == settle("exportHistory", {}, "error")

CleanupHistoryMutate == mutate("cleanupHistory")
CleanupHistorySuccess == settle("cleanupHistory", cleanupHistoryInvalidates, "success")
CleanupHistoryError == settle("cleanupHistory", {}, "error")

\* the download button is offered for a shown task that is completed
canDownload ==
  \E k \in Keys :
    /\ Mounted(k)
    /\ \E i \in DOMAIN qdata[k].tasks : qdata[k].tasks[i].status = "completed"

DownloadMidiMutate == canDownload /\ mutate("downloadMidi")
DownloadMidiSuccess == settle("downloadMidi", {}, "success")
DownloadMidiError == settle("downloadMidi", {}, "error")

\* the gateway hooks next to the uploads, the cancel, the views and the
\* responses that fill the Registry (no interval polling, no failing fetch)
GatewayNext ==
  \/ \E t \in TaskIds : SrvAdvance(t)
  \/ \E k \in Keys, i \in 1..MaxOutstanding : FetchSuccess(k, i)
  \/ \E v \in {"upload", "tasks"} : SwitchView(v)
  \/ \E kind \in {"single", "batch"}, n \in 1..Cardinality(TaskIds), ok \in BOOLEAN : UploadStart(kind, n, ok)
  \/ UploadSuccess
  \/ BatchUploadSuccess
  \/ UploadError
  \/ \E t \in TaskIds, ok \in BOOLEAN : CancelStart(t, ok)
  \/ CancelSuccess
  \/ CancelError
  \/ \E id \in NotifIds : TimerFire(id)
  \/ CleanupTasksMutate \/ CleanupTasksSuccess \/ CleanupTasksError
  \/ ExportHistoryMutate \/ ExportHistorySuccess \/ ExportHistoryError
  \/ CleanupHistoryMutate \/ CleanupHistorySuccess \/ CleanupHistoryError
  \/ DownloadMidiMutate \/ DownloadMidiSuccess \/ DownloadMidiError

GatewaySpec == Init /\ [][GatewayNext]_vars

\* ------------------------------------------- the recent-uploads poller alone
\* The upload page stays shown: uploads, the service's progress, tasks other
\* clients create, and the recent-uploads interval timer and its responses.
\* The timer fires while it is armed, responses arrive and the service
\* finishes what it has started.

\* another client's upload is accepted by the service: a newer task
OtherUpload(t) ==
  /\ FreshIds(TaskOrder, 1) = <<t>>
  /\ Cardinality({u \in TaskIds : srv[u] # "absent"}) < MaxTasks + MaxOthers
  /\ srv' = [srv EXCEPT ![t] = "pending"]
  /\ last' = ""
  /\ UNCHANGED <<storeVars, uiVars, view, queryVars, upload, cancelling, gateway>>

RecentNext ==
  \/ \E t \in TaskIds : SrvAdvance(t)
  \/ \E t \in TaskIds : OtherUpload(t)
  \/ PollTick("recent")
  \/ \E i \in 1..MaxOutstanding : FetchSuccess("recent", i)
  \/ \E kind \in {"single", "batch"}, n \in 1..Cardinality(TaskIds), ok \in BOOLEAN : UploadStart(kind, n, ok)
  \/ UploadSuccess
  \/ BatchUploadSuccess
  \/ UploadError
  \/ \E id \in NotifIds : TimerFire(id)

RecentSpec ==
  /\ Init
  /\ [][RecentNext]_vars
  /\ WF_vars(\E t \in TaskIds : SrvAdvance(t))
  /\ WF_vars(PollTick("recent"))
  /\ WF_vars(\E i \in 1..MaxOutstanding : FetchSuccess("recent", i))


\* ================================================================== claims
StatusesOf(ts, t) == {ts[i].status : i \in {j \in DOMAIN ts : ts[j].task_id = t}}

\* a step in which a poller's snapshot is applied to the Registry: the data
\* effect of the task-list or single-task hook runs
ReconciliationStep ==
  \/ \E k \in {"list", "detail"}, i \in 1..MaxOutstanding : FetchSuccess(k, i)
  \/ SwitchView("tasks")

\* C1: terminal monotonicity. No application of a list or single-task
\* snapshot changes a task's Registry status from completed, failed or
\* cancelled to pending or processing.
C1_TerminalMonotonicity ==
  [][ReconciliationStep =>
       \A t \in TaskIds :
         (StatusesOf(tasks, t) # {} /\ StatusesOf(tasks, t) \subseteq TerminalStatuses)
           => StatusesOf(tasks', t) \cap ActiveStatuses = {}]_vars

\* C2: Registry uniqueness. No two entries of the Registry's task list
\* carry the same task_id.
C2_RegistryUnique == \A t \in TaskIds : Count(tasks, t) <= 1

\* C3: no duplication in the merged view. The merged list of the recent
\* uploads holds each task_id at most once.
C3_MergedUnique == \A t \in TaskIds : Count(mergedTasks, t) <= 1

Range(s) == {s[i] : i \in DOMAIN s}

\* C4: remote precedence. Every task of the snapshot R is in the merged list
\* with R's field values, and the merged list holds no other entry for a
\* task_id of R (no copy from the Registry).
C4_RemotePrecedence ==
  LET R == apiTasksOf(qdata["recent"]) IN
    /\ \A i \in DOMAIN R : R[i] \in Range(mergedTasks)
    /\ \A j \in DOMAIN mergedTasks :
         mergedTasks[j].task_id \in Ids(R) => mergedTasks[j] \in Range(R)
    /\ \A t \in Ids(R) : Count(mergedTasks, t) = Count(R, t)

\* the spec's scenario: speculative A (numeric id 0, pending) in the
\* Registry, the snapshot lists A as numeric id 17, processing, progress 40;
\* the merged list shows A once, with the remote values
C4_Witness ==
  /\ qdata["recent"].has
  /\ \E i \in DOMAIN tasks : tasks[i].task_id = "A" /\ tasks[i].id = 0 /\ tasks[i].status = "pending"
  /\ \E i \in DOMAIN tasks : tasks[i].task_id = "B"
  /\ qdata["recent"].tasks = <<SrvTask("A", "processing")>>
  /\ Count(mergedTasks, "A") = 1
  /\ \E j \in DOMAIN mergedTasks :
       /\ mergedTasks[j].task_id = "A" /\ mergedTasks[j].id = 17
       /\ mergedTasks[j].status = "processing" /\ mergedTasks[j].progress = 40

\* C5: local survival. Every Registry task whose task_id is absent from the
\* snapshot (or when no snapshot has arrived) is in the merged list with its
\* local field values.
C5_LocalSurvival ==
  LET R == apiTasksOf(qdata["recent"]) IN
    \A i \in DOMAIN tasks :
      tasks[i].task_id \notin Ids(R) =>
        /\ tasks[i] \in Range(mergedTasks)
        /\ Count(mergedTasks, tasks[i].task_id) = Count(tasks, tasks[i].task_id)

\* a local-only task next to a task the snapshot lists too
C5_Witness ==
  /\ qdata["recent"].has
  /\ Ids(qdata["recent"].tasks) = {"B"}
  /\ Ids(tasks) = {"A", "B"}
  /\ \E j \in DOMAIN mergedTasks : mergedTasks[j].task_id = "A" /\ mergedTasks[j].id = 0


\* the latest stored snapshot of the key lists a pending or processing task
SnapshotActive(k) ==
  /\ qdata[k].has
  /\ \E i \in DOMAIN qdata[k].tasks : qdata[k].tasks[i].status \in ActiveStatuses

\* what the polling policy gives for the latest stored snapshot of the key
PolicyInterval(k) == IF SnapshotActive(k) THEN PollIntervalMs ELSE Never

\* C6: poll cadence. For the task-list and the single-task poller the
\* refetch delay is 2000 ms exactly when the latest stored snapshot of the
\* key lists a pending or processing task and "no refetch" otherwise, and a
\* mounted poller's interval timer runs exactly in the first case.
C6_PollCadence ==
  \A k \in {"list", "detail"} :
    /\ refetchInterval(k) = PolicyInterval(k)
    /\ PollArmed(k) <=> (Mounted(k) /\ SnapshotActive(k))

\* the task-list poller has settled with a failure on stale data that lists
\* an active task, and has also been seen settled on data without one
C6_Witness ==
  /\ view = "tasks"
  /\ ~fetching["list"] /\ net["list"] = <<>>
  /\ qerror["list"]
  /\ SnapshotActive("list")
  /\ selectedTaskId # NoTask /\ ~fetching["detail"]
  /\ qdata["detail"].has /\ ~SnapshotActive("detail")

\* the fetches of the key the query still waits for
LiveFetches(k) == {i \in DOMAIN net[k] : net[k][i].live}

StaleArrival(k) ==
  /\ fetching'[k] = fetching[k]
  /\ \E i \in DOMAIN net[k] : ~net[k][i].live /\ net'[k] = RemoveAt(net[k], i)

FailStep(k) == fetching[k] /\ ~fetching'[k] /\ qerror'[k]

\* C9: a failed poll changes no data. When a task-list or single-task fetch
\* fails, the stored snapshot of the key, the Registry's task list and
\* currentTask are unchanged, and the refetch delay afterwards is the one
\* the policy gives for the last stored snapshot (none without a snapshot).
C9_FailureKeepsData ==
  [][\A k \in {"list", "detail"} :
       FailStep(k) =>
         /\ qdata'[k] = qdata[k]
         /\ tasks' = tasks
         /\ currentTask' = currentTask
         /\ refetchInterval(k)' = PolicyInterval(k)
         /\ ~qdata[k].has => refetchInterval(k)' = Never]_vars

\* a task-list fetch has failed on top of a stored snapshot with an active
\* task: the snapshot is still there and the poller still polls
C9_Witness ==
  /\ view = "tasks"
  /\ qerror["list"] /\ ~fetching["list"]
  /\ SnapshotActive("list")
  /\ PollArmed("list")
  /\ tasks = qdata["list"].tasks

\* C10: every failed snapshot fetch of every poller (task list, single
\* task, recent uploads) appends exactly one notification of kind error.
C10_OneErrorPerFailure ==
  [][\A k \in Keys :
       FailStep(k) =>
         /\ Len(notifications') = Len(notifications) + 1
         /\ SubSeq(notifications', 1, Len(notifications)) = notifications
         /\ notifications'[Len(notifications')].type = "error"]_vars


\* the ids of the pending and processing tasks of a task list
ActiveIdsOf(ts) == {ts[i].task_id : i \in {j \in DOMAIN ts : ts[j].status \in ActiveStatuses}}

\* C11: active_ids. While RecentUploads is shown, the activeTasks that
\* drive its polling are exactly the ids of the pending and processing
\* tasks that passed the time-window filter, whenever the hook renders.
C11_ActiveIdsFiltered ==
  view = "upload" =>
    LET merged == mergedTasks IN
      \A h \in HoursInputs : \A T \in NowInputs(h) :
        Range(activeTasks) = ActiveIdsOf(recentTasksOf(merged, T, h))

\* C12: window inclusivity. With now = T and a window of h hours a merged
\* task is kept iff T - created_at <= h * 3600000 ms, in the merged order:
\* a task created exactly h hours ago is kept, one a millisecond older is
\* dropped.
C12_WindowInclusive ==
  LET merged == mergedTasks IN
    \A h \in HoursInputs : \A T \in NowInputs(h) :
      LET recent == recentTasksOf(merged, T, h) IN
        /\ \A i \in DOMAIN merged :
             merged[i] \in Range(recent) <=> T - merged[i].created_at <= h * MsPerHour
        /\ recent = SelectSeq(merged, LAMBDA t : T - t.created_at <= h * MsPerHour)

\* the merged view holds a task created exactly at the window's edge, which
\* is kept, and one created a millisecond before it, which is dropped
C12_Witness ==
  LET merged == mergedTasks IN
    \E h \in HoursInputs : \E T \in NowInputs(h) :
      \E i, j \in DOMAIN merged :
        /\ merged[i].created_at = T - h * MsPerHour
        /\ merged[i] \in Range(recentTasksOf(merged, T, h))
        /\ merged[j].created_at = T - h * MsPerHour - 1
        /\ merged[j] \notin Range(recentTasksOf(merged, T, h))


\* newest first: created_at never grows along the list
SortedDesc(ts) ==
  \A i, j \in DOMAIN ts : i < j => ts[i].created_at >= ts[j].created_at

\* a task as the example of the ordering rule names it
ExampleTask(t, c) ==
  [task_id |-> t, id |-> 0, status |-> "pending", progress |-> 0, created_at |-> c]

\* C13: recency order. The merged list and every filtered list are ordered
\* by created_at descending, whatever the order of the Registry; local
\* tasks [B(10), C(5)] with snapshot [C(5), D(8)] give [B(10), D(8), C(5)].
C13_RecencyOrder ==
  /\ LET merged == mergedTasks IN
       /\ SortedDesc(merged)
       /\ \A h \in HoursInputs : \A T \in NowInputs(h) :
            SortedDesc(recentTasksOf(merged, T, h))
  /\ mergedTasksOf(<<ExampleTask("B", 10), ExampleTask("C", 5)>>,
                   <<ExampleTask("C", 5), ExampleTask("D", 8)>>)
       = <<ExampleTask("B", 10), ExampleTask("D", 8), ExampleTask("C", 5)>>

\* the Registry holds an older task in front of a newer local one and the
\* snapshot holds the older one: the merged list shows them the other way
\* round
C13_Witness ==
  /\ Len(tasks) = 2
  /\ tasks[1].created_at < tasks[2].created_at
  /\ qdata["recent"].has
  /\ Ids(qdata["recent"].tasks) = {tasks[1].task_id}
  /\ Len(mergedTasks) = 2
  /\ mergedTasks[1] = tasks[2]
  /\ mergedTasks[2] = qdata["recent"].tasks[1]

\* C14: grouping by status partitions the filtered list. The groups' keys
\* are the statuses of the filtered tasks, and each group is the filtered
\* list restricted to its status, in the filtered list's order: every task
\* is in exactly the group of its status and no group holds anything else.
C14_GroupingPartitions ==
  LET merged == mergedTasks IN
    \A h \in HoursInputs : \A T \in NowInputs(h) :
      LET rec == recentTasksOf(merged, T, h)
          groups == tasksByStatusOf(rec)
      IN  /\ DOMAIN groups = {rec[i].status : i \in DOMAIN rec}
          /\ \A s \in DOMAIN groups :
               groups[s] = SelectSeq(rec, LAMBDA t : t.status = s)

\* two filtered tasks of one status form a group of two, the newer first,
\* while a third status has no group
C14_Witness ==
  \E h \in HoursInputs : \E T \in NowInputs(h) :
    LET rec == recentTasksOf(mergedTasks, T, h)
        groups == tasksByStatusOf(rec)
    IN  /\ Len(rec) = 2
        /\ rec[1].status = "processing" /\ rec[2].status = "processing"
        /\ rec[1].created_at > rec[2].created_at
        /\ DOMAIN groups = {"processing"}
        /\ groups["processing"] = rec


\* the field of the partial is present with the value undefined (in the
\* explored partials only status is)
GivenUndefined(partial, f) == f = "status" /\ partial[f] = Undefined

\* an entry with the defined fields of a partial merged in
MergedEntry(entry, partial) ==
  [f \in DOMAIN entry \cup DOMAIN partial |->
     IF f \in DOMAIN partial /\ ~GivenUndefined(partial, f)
     THEN partial[f]
     ELSE entry[f]]

\* C15: upsert. addTask of a task whose task_id the Registry lacks puts it
\* in front of the unchanged earlier entries; addTask of a task whose
\* task_id is there keeps the number of entries and merges the task's
\* fields into the entry where it stands.
C15_Upsert ==
  [][\A task \in AddInputs :
       AddTaskCall(task) =>
         IF task.task_id \notin Ids(tasks)
         THEN tasks' = <<task>> \o tasks
         ELSE /\ Len(tasks') = Len(tasks)
              /\ tasks' = [i \in DOMAIN tasks |->
                             IF tasks[i].task_id = task.task_id
                             THEN MergedEntry(tasks[i], task)
                             ELSE tasks[i]]]_vars

\* C16: replaceAll. After setTasks(S) the Registry's task list is S, in
\* S's order, whatever it held before.
C16_ReplaceAll ==
  [][\A S \in SnapshotInputs :
       SetTasksCall(S) => tasks' = S /\ Ids(tasks') = Ids(S)]_vars

\* setTasks was just called with a one-task snapshot and the Registry is it
C16_Witness ==
  /\ last = "setTasks"
  /\ tasks = <<SrvTask("B", "completed")>>

\* C17: patch no-op. updateTask with a task_id the Registry lacks leaves
\* the task list as it is: same entries, same order, same field values.
C17_PatchNoOp ==
  [][\A t \in TaskIds : \A u \in UpdateInputs(t) :
       (UpdateTaskCall(t, u) /\ t \notin Ids(tasks)) => tasks' = tasks]_vars

\* updateTask was just called with an id the non-empty Registry lacks
C17_Witness ==
  /\ last = "updateTask, unknown id"
  /\ tasks # <<>>
  /\ Ids(tasks) # TaskIds

\* C18: field merge does not erase. When updateTask merges a partial into
\* an entry, every field the partial lacks or gives as undefined keeps the
\* entry's value.
C18_MergeKeepsFields ==
  [][\A t \in TaskIds : \A u \in UpdateInputs(t) :
       UpdateTaskCall(t, u) =>
         \A i \in DOMAIN tasks :
           tasks[i].task_id = t =>
             \A f \in DOMAIN tasks[i] :
               (f \notin DOMAIN u \/ GivenUndefined(u, f))
                 => tasks'[i][f] = tasks[i][f]]_vars

\* C19: updateTask applies the partial to currentTask when currentTask has
\* the patched task_id, each given field overwriting and the others kept,
\* and leaves currentTask as it is when it is null or of another task.
C19_PatchCurrentTask ==
  [][\A t \in TaskIds : \A u \in UpdateInputs(t) :
       UpdateTaskCall(t, u) =>
         IF currentTask # <<>> /\ currentTask[1].task_id = t
         THEN currentTask' =
                <<[f \in DOMAIN currentTask[1] \cup DOMAIN u |->
                     IF f \in DOMAIN u THEN u[f] ELSE currentTask[1][f]]>>
         ELSE currentTask' = currentTask]_vars

\* updateTask({ status: 'cancelled' }) was just applied to the entry of the
\* selected task and to currentTask alike
C19_Witness ==
  /\ last = "updateTask"
  /\ currentTask # <<>>
  /\ currentTask[1].status = "cancelled"
  /\ currentTask[1].progress = 40
  /\ \E i \in DOMAIN tasks :
       /\ tasks[i].task_id = currentTask[1].task_id
       /\ tasks[i].status = "cancelled"

\* C20: tasks are never deleted from the Registry. A task_id that is in
\* the task list is in it after every step.
C20_NeverDeleted == [][Ids(tasks) \subseteq Ids(tasks')]_vars


\* a step in which the Registry is patched or extended, not replaced: the
\* single-task poller's data effect, a cancel's or an upload's callback
PatchOrUpsertStep ==
  \/ \E i \in 1..MaxOutstanding : FetchSuccess("detail", i)
  \/ CancelSuccess
  \/ UploadSuccess
  \/ BatchUploadSuccess

\* C21: created_at is immutable. No patch (single-task poll, cancel) and no
\* upsert changes the created_at of an entry the Registry holds: the earlier
\* entries keep their created_at, also when the entry was stamped with the
\* client clock and the service reports another created_at.
C21_CreatedAtImmutable ==
  [][PatchOrUpsertStep =>
       \A i \in DOMAIN tasks :
         LET j == i + (Len(tasks') - Len(tasks)) IN
           tasks'[j].task_id = tasks[i].task_id
             => tasks'[j].created_at = tasks[i].created_at]_vars


\* the positions of the Registry tasks with one of the statuses, and the
\* k-th of them from the front
PositionsWith(statuses) == {i \in DOMAIN tasks : tasks[i].status \in statuses}
NthOf(positions, k) ==
  CHOOSE i \in positions : Cardinality({j \in positions : j < i}) = k - 1

\* the Registry tasks with one of the statuses, in Registry order
ExactlyWith(result, statuses) ==
  /\ Len(result) = Cardinality(PositionsWith(statuses))
  /\ \A k \in DOMAIN result : result[k] = tasks[NthOf(PositionsWith(statuses), k)]

\* C22: the Registry queries are read-only and consistent. byStatus(s) is
\* exactly the Registry tasks of status s in Registry order, active() those
\* pending or processing, completed() is byStatus(completed), byId the entry
\* with the id or nothing; calling them changes no store field.
C22_QueriesReadOnly ==
  [][GettersCall =>
       /\ \A s \in InputStatuses \cup TerminalStatuses :
            ExactlyWith(getTasksByStatus(s), {s})
       /\ ExactlyWith(getActiveTasks, ActiveStatuses)
       /\ getCompletedTasks = getTasksByStatus("completed")
       /\ \A t \in TaskIds :
            IF t \in Ids(tasks)
            THEN /\ Len(getTaskById(t)) = 1
                 /\ getTaskById(t)[1] \in Range(tasks)
                 /\ getTaskById(t)[1].task_id = t
            ELSE getTaskById(t) = <<>>
       /\ UNCHANGED <<tasks, currentTask, isLoading>>]_vars

\* the getters were just called on a Registry with a pending, then a
\* completed task, and with a selected task
C22_Witness ==
  /\ last = "getters"
  /\ Len(tasks) = 2
  /\ tasks[1].status = "pending" /\ tasks[2].status = "completed"
  /\ getActiveTasks = <<tasks[1]>>
  /\ getCompletedTasks = <<tasks[2]>>
  /\ currentTask # <<>>


\* the effective expiry of a queued notification is positive
ExpiresByTimer(n) == effectiveDuration(durationOf(n)) > 0

\* C23: notification add. addNotification returns the new notification's
\* id, appends exactly one entry with that id at the end of the queue
\* leaving the earlier entries as they are, and schedules one removal of
\* that id iff the effective expiry (5000 ms when none is given) is
\* positive.
C23_NotificationAdd ==
  [][\A n \in NotificationInputs, id \in NotifIds :
       AddNotificationCall(n, id) =>
         /\ addNotificationReturn(id) = id
         /\ Len(notifications') = Len(notifications) + 1
         /\ SubSeq(notifications', 1, Len(notifications)) = notifications
         /\ notifications'[Len(notifications')].id = id
         /\ timers' = [timers EXCEPT ![id] =
                         IF ExpiresByTimer(n) THEN @ + 1 ELSE @]]_vars

\* a step that removes by id: a manual removeNotification(id) or the timer
\* of id firing
RemoveStep(id) == RemoveNotificationCall(id) \/ TimerFire(id)

\* C24: notification removal is idempotent and targeted. A remove of an id,
\* manual or by timer, deletes one notification at most and none of another
\* id, and leaves the queue as it is when no entry has the id.
C24_RemoveTargeted ==
  [][\A id \in NotifIds :
       RemoveStep(id) =>
         /\ Len(notifications') >= Len(notifications) - 1
         /\ SelectSeq(notifications', LAMBDA n : n.id # id)
              = SelectSeq(notifications, LAMBDA n : n.id # id)
         /\ (\A i \in DOMAIN notifications : notifications[i].id # id)
              => notifications' = notifications]_vars

\* C25: clear() empties the queue, and a removal scheduled before the clear
\* is a no-op when it fires later: it removes none of the notifications
\* added after the clear.
C25_ClearThenTimers ==
  [][/\ ClearNotificationsCall => notifications' = <<>>
     /\ \A id \in NotifIds :
          (TimerFire(id) /\ last = "clearNotifications")
            => notifications' = notifications]_vars

\* C26: notification expiry. A timer that fires removes no notification
\* that was added with expiry 0 or negative: such a notification leaves the
\* queue by a manual remove or a clear only.
C26_NoTimerForUnexpiring ==
  [][\A id \in NotifIds :
       TimerFire(id) =>
         SelectSeq(notifications', LAMBDA n : ~ExpiresByTimer(n))
           = SelectSeq(notifications, LAMBDA n : ~ExpiresByTimer(n))]_vars

\* C27: no leaked timers. The removal timers pending for an id are at most
\* the queued notifications of that id that expire by timer: one timer per
\* notification, and none left for a notification that was dismissed or
\* cleared.
C27_NoLeakedTimers ==
  \A id \in NotifIds :
    timers[id] <=
      Cardinality({i \in DOMAIN notifications :
                     notifications[i].id = id /\ ExpiresByTimer(notifications[i])})


\* every Registry entry of task t has status "cancelled" in the list ts
CancelledIn(ts, t) ==
  \A i \in DOMAIN ts : ts[i].task_id = t => ts[i].status = "cancelled"

\* exactly one notification of the type is appended to the queue
OneAppended(type) ==
  /\ Len(notifications') = Len(notifications) + 1
  /\ SubSeq(notifications', 1, Len(notifications)) = notifications
  /\ notifications'[Len(notifications')].type = type

\* C28: optimistic cancel. While a cancel of a task is on its way to the
\* service and has not resolved, every Registry entry of that task has
\* status "cancelled".
C28_OptimisticCancel ==
  cancelling # <<>> => CancelledIn(tasks, cancelling[1].task_id)

\* a fetch of the key is running and its response will be used
Refetching(k) ==
  /\ fetching[k]
  /\ \E i \in DOMAIN net[k] : net[k][i].live

\* C29: cancel success. When the remote cancel of a task succeeds, the
\* Registry entries of the task get status "cancelled", exactly one success
\* notification is appended, and the task list and the task's single-task
\* view are invalidated: each one that is shown is being re-fetched.
C29_CancelSuccess ==
  [][CancelSuccess =>
       LET t == cancelling[1].task_id IN
         /\ CancelledIn(tasks', t)
         /\ OneAppended("success")
         /\ \A k \in {"list"} \cup (IF selectedTaskId = t THEN {"detail"} ELSE {}) :
              Mounted(k) => Refetching(k)']_vars

\* a cancel has succeeded for a task the list data still shows as active:
\* the Registry entry is cancelled by the patch, the success notification is
\* queued and the list is being re-fetched
C29_Witness ==
  /\ cancelling = <<>>
  /\ notifications # <<>> /\ notifications[Len(notifications)].type = "success"
  /\ view = "tasks" /\ Refetching("list")
  /\ \E i \in DOMAIN tasks :
       /\ tasks[i].status = "cancelled"
       /\ srv[tasks[i].task_id] = "cancelled"
       /\ \E j \in DOMAIN qdata["list"].tasks :
            /\ qdata["list"].tasks[j].task_id = tasks[i].task_id
            /\ qdata["list"].tasks[j].status \in ActiveStatuses
       /\ ~(qdata["detail"].has /\ qdata["detail"].tasks[1].status = "cancelled")

\* C30: cancel failure. When the remote cancel of a task fails, exactly one
\* error notification is appended and nothing is rolled back: the Registry
\* entries of the task have status "cancelled" after the failure.
C30_CancelFailure ==
  [][CancelError =>
       /\ OneAppended("error")
       /\ CancelledIn(tasks', cancelling[1].task_id)]_vars


\* C31: speculative create. While an upload (single or batch) that the
\* service accepts is on its way and has not resolved, the Registry holds
\* for each task being created an entry with numeric id 0 and status
\* pending.
C31_SpeculativeCreate ==
  upload # <<>> =>
    \A i \in DOMAIN upload[1].items :
      \E j \in DOMAIN tasks :
        /\ tasks[j].task_id = upload[1].items[i].task_id
        /\ tasks[j].id = 0
        /\ tasks[j].status = "pending"


\* an upload, single or batch, settles: with success or with failure
UploadSettles == UploadSuccess \/ BatchUploadSuccess \/ UploadError

\* C32: when an upload settles, with success or with failure, the task list
\* is invalidated: a shown task list is being re-fetched after the step.
C32_InvalidateOnSettle ==
  [][UploadSettles => (Mounted("list") => Refetching("list")')]_vars


\* a step of cleanup or export: the request is issued, or it settles
CleanupOrExportStep ==
  \/ CleanupTasksMutate \/ CleanupTasksSuccess \/ CleanupTasksError
  \/ ExportHistoryMutate \/ ExportHistorySuccess \/ ExportHistoryError
  \/ CleanupHistoryMutate \/ CleanupHistorySuccess \/ CleanupHistoryError

\* C33: cleanup and export never change the Registry, neither when issued
\* nor when they settle; on success each of them invalidates the list and
\* the statistics keys of its domain (a shown task list is re-fetched) and
\* appends exactly one success notification.
C33_CleanupExport ==
  [][/\ CleanupOrExportStep => UNCHANGED <<tasks, currentTask>>
     /\ CleanupTasksSuccess =>
          /\ {"list", "statistics"} \subseteq cleanupTasksInvalidates
          /\ Mounted("list") => Refetching("list")'
          /\ OneAppended("success")
     /\ CleanupHistorySuccess =>
          /\ {"history list", "history statistics"} \subseteq cleanupHistoryInvalidates
          /\ OneAppended("success")
     /\ ExportHistorySuccess =>
          /\ {"history list", "history statistics"} \subseteq exportHistoryInvalidates
          /\ OneAppended("success")]_vars


\* the failure of a gateway operation arrives: cancel, cleanup, export,
\* download, create or createBatch
GatewayFailure ==
  \/ CancelError \/ UploadError
  \/ CleanupTasksError \/ ExportHistoryError \/ CleanupHistoryError
  \/ DownloadMidiError

\* the number of gateway operations under way
UnderWay == Len(upload) + Len(cancelling) + Cardinality(gateway)

\* C34: failure containment. The failure of a gateway operation appends
\* exactly one error notification, changes no Registry task and nothing of
\* the views and queries, ends the failed operation and leaves no
\* uploading flag behind: the stores are as usable as before.
C34_FailureContained ==
  [][GatewayFailure =>
       /\ OneAppended("error")
       /\ UNCHANGED <<srv, storeVars, selectedTaskId, view, queryVars>>
       /\ UnderWay' = UnderWay - 1
       /\ UploadError => ~isUploading']_vars

\* a failure has been reported while the Registry holds tasks: the error
\* notification is queued, nothing is under way and the uploading flag is
\* down
C34_Witness ==
  /\ notifications # <<>> /\ notifications[Len(notifications)].type = "error"
  /\ tasks # <<>>
  /\ upload = <<>> /\ cancelling = <<>> /\ gateway = {}
  /\ ~isUploading


\* no task can be created any more, the service reports every task as
\* completed, failed or cancelled, and the recent-uploads query has stored
\* such a snapshot with no request under way
ServiceQuiet ==
  /\ \A t \in TaskIds : srv[t] \in TerminalStatuses
  /\ upload = <<>>
  /\ qdata["recent"].has
  /\ \A i \in DOMAIN qdata["recent"].tasks :
       qdata["recent"].tasks[i].status \in TerminalStatuses
  /\ net["recent"] = <<>>

Created ==
  {t \in TaskIds :
     /\ srv[t] # "absent"
     /\ \A u \in DOMAIN upload : \A i \in DOMAIN upload[u].items :
          upload[u].items[i].task_id # t}

\* C36: a created task stays visible. After the upload success has put a
\* task into the Registry, its task_id is in the recent-uploads merged list
\* in every state in which the upload page is shown.
C36_CreatedStaysVisible ==
  view = "upload" => \A t \in Created : t \in Ids(mergedTasks)


\* C37: notification ids are pairwise distinct within the queue in every
\* reachable state, so that a remove by id deletes one notification at most.
C37_DistinctIds ==
  \A i, j \in DOMAIN notifications :
    notifications[i].id = notifications[j].id => i = j


\* C38: selected-task consistency. When currentTask is set and the Registry
\* has an entry with the same task_id, the two agree on status and progress.
C38_CurrentTaskConsistent ==
  currentTask # <<>> =>
    \A i \in DOMAIN tasks :
      tasks[i].task_id = currentTask[1].task_id =>
        /\ tasks[i].status = currentTask[1].status
        /\ tasks[i].progress = currentTask[1].progress


====
